---- MODULE Spec2Model ----
(***************************************************************************)
(* Model of universalis-alerts (src/main.rs): the websocket consumer that  *)
(* decodes listings events, looks up the user alerts of the event's world  *)
(* and item, evaluates each alert's trigger and posts a Discord webhook    *)
(* message for the alerts that fire.                                       *)
(*                                                                         *)
(* All message futures of for_each_concurrent are polled by the one main   *)
(* task, so the code between two .await points is one atomic step.  A      *)
(* panic (an unwrap on None or Err) in any of them unwinds the main task   *)
(* and ends the process.                                                   *)
(***************************************************************************)
EXTENDS Integers, Sequences, FiniteSets, TLC

\* ------------------------------------------------------------------ bounds
MaxMsgs == 2          \* stream messages received in one run
MaxStore == 2         \* rows of users_alerts_next in the matcher runs

\* --------------------------------------------------------------- constants
MIN_TRIGGER_VERSION == 0
MAX_TRIGGER_VERSION == 0
WILDCARD_ITEM == -1

NoWebhook == "None"

Worlds == {1, 2}
Items == {5, 6}
Versions == {-1, 0, 1}

\* ------------------------------------------------------------- sequences
BoundedSeq(S, n) == UNION {[1..k -> S] : k \in 0..n}

RECURSIVE SeqMap(_, _)
SeqMap(Op(_), s) ==
    IF s = <<>> THEN <<>> ELSE <<Op(Head(s))>> \o SeqMap(Op, Tail(s))

Min(S) == CHOOSE x \in S : \A y \in S : x <= y

\* ---------------------------------------------------------- trigger text
\* The `trigger` column holds the JSON text of an AlertTrigger.  The text is
\* modelled by whether serde_json accepts it and, when it does, the price
\* threshold of the rule it denotes.
TriggerText(valid, lt) == [valid |-> valid, lt |-> lt]
MalformedTrigger == TriggerText(FALSE, 0)

\* serde_json::from_str::<AlertTrigger>(&alert.trigger)
ParseTrigger(text) ==
    IF text.valid THEN [ok |-> TRUE, rule |-> [lt |-> text.lt]]
    ELSE [ok |-> FALSE, rule |-> [lt |-> 0]]

\* AlertTrigger::evaluate(&listings) -> Option<f32>: the lowest price among
\* the listings that satisfy the rule, None when no listing does.
Evaluate(rule, listings) ==
    LET hits == {listings[k] : k \in {j \in DOMAIN listings : listings[j] < rule.lt}}
    IN  IF hits = {} THEN [some |-> FALSE, val |-> 0]
        ELSE [some |-> TRUE, val |-> Min(hits)]

\* ------------------------------------------------------------ alert store
AlertRow(name, world_id, item_id, version, webhook, trigger) ==
    [name |-> name, world_id |-> world_id, item_id |-> item_id,
     trigger_version |-> version, discord_webhook |-> webhook,
     trigger |-> trigger]

\* struct UserAlert: the three selected columns of a row
UserAlert(row) ==
    [name |-> row.name, discord_webhook |-> row.discord_webhook,
     trigger |-> row.trigger]

\* The WHERE clause of the query.
SelectedNoVersion(row, world_id, item_id) ==
    /\ row.world_id = world_id
    /\ (row.item_id = item_id \/ row.item_id = WILDCARD_ITEM)

SelectedNoWildcard(row, world_id, item_id) ==
    /\ row.world_id = world_id
    /\ row.item_id = item_id
    /\ row.trigger_version >= MIN_TRIGGER_VERSION
    /\ row.trigger_version <= MAX_TRIGGER_VERSION

Selected(row, world_id, item_id) ==
    /\ row.world_id = world_id
    /\ (row.item_id = item_id \/ row.item_id = WILDCARD_ITEM)
    /\ row.trigger_version >= MIN_TRIGGER_VERSION
    /\ row.trigger_version <= MAX_TRIGGER_VERSION

RECURSIVE QueryRows(_, _, _)
QueryRows(rows, world_id, item_id) ==
    IF rows = <<>> THEN <<>>
    ELSE (IF Selected(Head(rows), world_id, item_id)
          THEN <<Head(rows)>> ELSE <<>>)
         \o QueryRows(Tail(rows), world_id, item_id)

\* The closure given to .map(): builds (UserAlert, AlertTrigger) of one row.
MapRow(row) ==
    [alert |-> UserAlert(row), trigger |-> ParseTrigger(row.trigger).rule]

DbOutcomes == {"ok", "conn_err", "query_err"}

\* get_alerts_for_world_item: Err when the connection or the query fails,
\* a panic when the trigger text of a selected row does not parse (unwrap),
\* otherwise the selected rows in the order the query yields them.
GetAlertsForWorldItem(world_id, item_id, rows, db) ==
    LET sel == QueryRows(rows, world_id, item_id)
    IN  IF db # "ok" THEN [status |-> "err", alerts |-> <<>>]
        ELSE IF \E k \in DOMAIN sel : ~ParseTrigger(sel[k].trigger).ok
             THEN [status |-> "panic", alerts |-> <<>>]
        ELSE [status |-> "ok", alerts |-> SeqMap(MapRow, sel)]

\* --------------------------------------------------------- stream messages
EventFields == {"world_id", "item_id", "listings"}

\* The payload of a websocket message: whether it is a well-formed BSON
\* document, the fields the document has, and their values.
Bytes(wellformed, fields, world_id, item_id, listings) ==
    [wellformed |-> wellformed, fields |-> fields, world_id |-> world_id,
     item_id |-> item_id, listings |-> listings]

EventBytes(world_id, item_id, listings) ==
    Bytes(TRUE, EventFields, world_id, item_id, listings)
GarbageBytes == Bytes(FALSE, {}, 0, 0, <<>>)
NoItemBytes == Bytes(TRUE, {"world_id", "listings"}, 1, 0, <<>>)

\* An item of the read half: Err(e) or Ok(message).
RecvError == [kind |-> "error", data |-> GarbageBytes]
Binary(data) == [kind |-> "binary", data |-> data]

ListingSeqs == {<<>>, <<3>>, <<3, 1>>}

BadMessages == {RecvError, Binary(GarbageBytes), Binary(NoItemBytes)}
EventMessages ==
    {Binary(EventBytes(1, 5, l)) : l \in ListingSeqs}
    \cup {Binary(EventBytes(1, 6, <<3, 1>>)),
          Binary(EventBytes(1, WILDCARD_ITEM, <<3, 1>>)),
          Binary(EventBytes(2, 5, <<3, 1>>))}
StreamMessages == BadMessages \cup EventMessages

\* The searches of the matcher runs: every world and item id.
QueryMessages ==
    {Binary(EventBytes(w, i, <<3, 1>>)) :
        w \in Worlds, i \in Items \cup {WILDCARD_ITEM}}

NoEvent == [world_id |-> 0, item_id |-> 0, listings |-> <<>>]

\* parse_event_from_message: Document::from_reader, then bson::from_bson.
ParseEventFromMessage(data) ==
    IF data.wellformed /\ data.fields = EventFields
    THEN [ok |-> TRUE,
          ev |-> [world_id |-> data.world_id, item_id |-> data.item_id,
                  listings |-> data.listings]]
    ELSE [ok |-> FALSE, ev |-> NoEvent]

\* message.chain_err(..).map(|m| m.into_data()).and_then(parse_event_from_message)
DecodeMessage(m) ==
    IF m.kind = "error" THEN [ok |-> FALSE, ev |-> NoEvent]
    ELSE ParseEventFromMessage(m.data)

\* ------------------------------------------------------------------ state
VARIABLES
    store,       \* rows of users_alerts_next
    main_pc,     \* where main() is
    connects,    \* connect_async calls made
    subscribes,  \* subscribe documents sent
    tasks        \* the message futures of for_each_concurrent, in arrival order

vars == <<store, main_pc, connects, subscribes, tasks>>

\* The future of one message.
NewTask(m) ==
    [msg |-> m, pc |-> "start", ev |-> NoEvent, queried |-> FALSE,
     lookup |-> "none", alerts |-> <<>>, idx |-> 0, tr |-> 0,
     evals |-> <<>>, net |-> <<>>, notified |-> <<>>, panic |-> "none"]

Panic(t, cause) == [t EXCEPT !.pc = "panicked", !.panic = cause]

NetCallShared(kind, t, url) ==
    [kind |-> kind, idx |-> t.idx, item_id |-> tasks[1].ev.item_id,
     world_id |-> tasks[1].ev.world_id, url |-> url]

\* A call made on behalf of the event of the message future: get_item(item_id),
\* get_world(world_id), or the POST of the payload built from both.
NetCall(kind, t, url) ==
    [kind |-> kind, idx |-> t.idx, item_id |-> t.ev.item_id,
     world_id |-> t.ev.world_id, url |-> url]

Notified(t, result, response) ==
    [t EXCEPT !.notified =
        Append(@, [idx |-> t.idx, result |-> result, response |-> response])]

\* ---------------------------------------------------- send_discord_message
HasEndpointAlways(alert) == TRUE

\* alert.discord_webhook.is_some()
HasEndpoint(alert) == alert.discord_webhook # NoWebhook

\* Err(..) of send_discord_message reaches the second unwrap of the loop.
NotifyErr(t, response) == Panic(Notified(t, "Err", response), "dispatch")

RECURSIVE RunCandidates(_, _)
RECURSIVE SendDiscordMessage(_, _, _)

SendDiscordMessageDetached(t, k, tr) ==
    LET alert == t.alerts[k].alert
        t1 == [t EXCEPT !.idx = k, !.tr = tr]
    IN  IF ~HasEndpoint(alert)
        THEN RunCandidates(Notified(t1, "Ok", "none"), k + 1)
        ELSE LET t2 == RunCandidates(t1, k + 1)
             IN  [t2 EXCEPT !.pc = "item", !.idx = k,
                            !.net = Append(@, NetCall("item", t1, "xivapi"))]

\* send_discord_message up to its first suspension: Ok(()) at once without an
\* endpoint, otherwise get_item is called and awaited.
SendDiscordMessage(t, k, tr) ==
    LET alert == t.alerts[k].alert
        t1 == [t EXCEPT !.idx = k, !.tr = tr]
    IN  IF ~HasEndpoint(alert)
        THEN RunCandidates(Notified(t1, "Ok", "none"), k + 1)
        ELSE [t1 EXCEPT !.pc = "item",
                        !.net = Append(@, NetCall("item", t1, "xivapi"))]

\* The for loop over the candidates from candidate k on, up to the next
\* suspension: evaluate, unwrap the Option, await the dispatch, unwrap it.
RunCandidates(t, k) ==
    IF k > Len(t.alerts) THEN [t EXCEPT !.pc = "done", !.idx = k]
    ELSE LET r == Evaluate(t.alerts[k].trigger, t.ev.listings)
             t1 == [t EXCEPT !.idx = k, !.evals = Append(@, r)]
         IN  IF r.some THEN SendDiscordMessage(t1, k, r.val)
             ELSE Panic(t1, "no_result")

AfterItemWorldAnyway(t, ok) ==
    IF ok THEN [t EXCEPT !.pc = "world",
                         !.net = Append(@, NetCall("world", t, "xivapi"))]
    ELSE NotifyErr([t EXCEPT !.net = Append(@, NetCall("world", t, "xivapi"))],
                   "item_failed")

\* get_item(item_id, &client).await?
AfterItem(t, ok) ==
    IF ok THEN [t EXCEPT !.pc = "world",
                         !.net = Append(@, NetCall("world", t, "xivapi"))]
    ELSE NotifyErr(t, "item_failed")

\* get_world(world_id, &client).await?, then the payload is built and posted.
AfterWorld(t, ok) ==
    IF ok THEN [t EXCEPT !.pc = "post",
                         !.net = Append(@, NetCall("post", t,
                                    t.alerts[t.idx].alert.discord_webhook))]
    ELSE NotifyErr(t, "world_failed")

PostOutcomes == {"2xx", "non2xx", "unreachable"}

AfterPostRetry(t, response) ==
    IF response = "unreachable"
    THEN [t EXCEPT !.net = Append(@, NetCall("post", t,
                                    t.alerts[t.idx].alert.discord_webhook))]
    ELSE RunCandidates(Notified(t, "Ok", response), t.idx + 1)

\* client.post(..).send().await?; Ok(()): send() is Err only when no response
\* was received; a response of any status is Ok.
AfterPost(t, response) ==
    IF response = "unreachable" THEN NotifyErr(t, "unreachable")
    ELSE RunCandidates(Notified(t, "Ok", response), t.idx + 1)

\* ------------------------------------------------------ on_message closure
OnMessageUnwrapDecode(m) ==
    LET d == DecodeMessage(m)
    IN  IF ~d.ok THEN Panic(NewTask(m), "decode")
        ELSE [NewTask(m) EXCEPT !.pc = "lookup", !.ev = d.ev,
                                !.queried = TRUE, !.lookup = "pending"]

\* The closure up to its first suspension: decode, return on an error,
\* otherwise call get_alerts_for_world_item and await it.
OnMessage(m) ==
    LET d == DecodeMessage(m)
    IN  IF ~d.ok THEN [NewTask(m) EXCEPT !.pc = "skipped"]
        ELSE [NewTask(m) EXCEPT !.pc = "lookup", !.ev = d.ev,
                                !.queried = TRUE, !.lookup = "pending"]

\* get_alerts_for_world_item(..).await.unwrap(), then the loop starts.
AfterLookup(t, res) ==
    IF res.status = "err" THEN Panic([t EXCEPT !.lookup = "err"], "lookup")
    ELSE IF res.status = "panic"
         THEN Panic([t EXCEPT !.lookup = "panic"], "parse")
    ELSE RunCandidates([t EXCEPT !.lookup = "ok", !.alerts = res.alerts], 1)

\* A panic in a message future unwinds main(): the process ends.
ProcessAfter(t) == IF t.pc = "panicked" THEN "panicked" ELSE main_pc

Live == main_pc \in {"running", "draining"}

\* ---------------------------------------------------------------- startup
\* env::var of the database and websocket addresses, Url::parse, then
\* connect_async is called.
Configure ==
    /\ main_pc = "init"
    /\ \E ok \in BOOLEAN :
          IF ok THEN main_pc' = "connecting" /\ connects' = connects + 1
          ELSE main_pc' = "exit_err" /\ UNCHANGED connects
    /\ UNCHANGED <<store, subscribes, tasks>>

ConnectReturnNoSubscribe ==
    /\ main_pc = "connecting"
    /\ \E handshake \in BOOLEAN, channel \in BOOLEAN :
          main_pc' = IF handshake /\ channel THEN "running" ELSE "exit_err"
    /\ UNCHANGED <<store, connects, subscribes, tasks>>

\* connect_async(url).await?, env::var of the channel, then the subscribe
\* document is serialized and write.send is called.
ConnectReturn ==
    /\ main_pc = "connecting"
    /\ \E handshake \in BOOLEAN, channel \in BOOLEAN :
          IF handshake /\ channel
          THEN main_pc' = "subscribing" /\ subscribes' = subscribes + 1
          ELSE main_pc' = "exit_err" /\ UNCHANGED subscribes
    /\ UNCHANGED <<store, connects, tasks>>

\* write.send(Message::Binary(v)).await?
SubscribeReturn ==
    /\ main_pc = "subscribing"
    /\ \E ok \in BOOLEAN :
          main_pc' = IF ok THEN "running" ELSE "exit_err"
    /\ UNCHANGED <<store, connects, subscribes, tasks>>

\* ------------------------------------------------------------ the pipeline
ReceiveWhenIdle(m) ==
    /\ main_pc = "running"
    /\ Len(tasks) < MaxMsgs
    /\ \A i \in DOMAIN tasks : tasks[i].pc \in {"skipped", "done"}
    /\ LET t == OnMessage(m)
       IN  /\ tasks' = Append(tasks, t)
           /\ main_pc' = ProcessAfter(t)
    /\ UNCHANGED <<store, connects, subscribes>>

\* The read half yields an item and its future is polled for the first time:
\* for_each_concurrent(None, ..) puts no limit on the futures in flight.
Receive(m) ==
    /\ main_pc = "running"
    /\ Len(tasks) < MaxMsgs
    /\ LET t == OnMessage(m)
       IN  /\ tasks' = Append(tasks, t)
           /\ main_pc' = ProcessAfter(t)
    /\ UNCHANGED <<store, connects, subscribes>>

Resume(i, t) ==
    /\ tasks' = [tasks EXCEPT ![i] = t]
    /\ main_pc' = ProcessAfter(t)
    /\ UNCHANGED <<store, connects, subscribes>>

LookupReturn(i) ==
    /\ Live
    /\ tasks[i].pc = "lookup"
    /\ \E db \in DbOutcomes :
          Resume(i, AfterLookup(tasks[i],
                    GetAlertsForWorldItem(tasks[i].ev.world_id,
                                          tasks[i].ev.item_id, store, db)))

ItemReturn(i) ==
    /\ Live
    /\ tasks[i].pc = "item"
    /\ \E ok \in BOOLEAN : Resume(i, AfterItem(tasks[i], ok))

WorldReturn(i) ==
    /\ Live
    /\ tasks[i].pc = "world"
    /\ \E ok \in BOOLEAN : Resume(i, AfterWorld(tasks[i], ok))

PostReturn(i) ==
    /\ Live
    /\ tasks[i].pc = "post"
    /\ \E response \in PostOutcomes : Resume(i, AfterPost(tasks[i], response))

StreamEndReconnect ==
    /\ main_pc = "running"
    /\ main_pc' = "connecting"
    /\ connects' = connects + 1
    /\ UNCHANGED <<store, subscribes, tasks>>

\* The read half yields None: the connection is gone.  Nothing connects
\* again; the futures in flight are still polled.
StreamEnd ==
    /\ main_pc = "running"
    /\ main_pc' = "draining"
    /\ UNCHANGED <<store, connects, subscribes, tasks>>

\* on_message completes once the stream has ended and no future is left;
\* main returns Ok(()).
Exit ==
    /\ main_pc = "draining"
    /\ \A i \in DOMAIN tasks : tasks[i].pc \in {"skipped", "done"}
    /\ main_pc' = "exit_ok"
    /\ UNCHANGED <<store, connects, subscribes, tasks>>

\* ---------------------------------------------------------- specifications
\* Stores of the pipeline runs: rows of world 1 and of a supported version,
\* with and without a webhook, for one item and for any item, one of them
\* with a trigger text that does not parse.
RowA == AlertRow("a", 1, 5, 0, "hookA", TriggerText(TRUE, 2))
RowB == AlertRow("b", 1, 5, 0, NoWebhook, TriggerText(TRUE, 2))
RowC == AlertRow("c", 1, WILDCARD_ITEM, 0, "hookC", TriggerText(TRUE, 4))
RowD == AlertRow("d", 1, 6, 0, "hookD", MalformedTrigger)

PipelineStores ==
    { <<RowA, RowB, RowC>>, <<RowB, RowC, RowA>>, <<RowC, RowD>> }

Init ==
    /\ store \in PipelineStores
    /\ main_pc = "init"
    /\ connects = 0
    /\ subscribes = 0
    /\ tasks = <<>>

Next ==
    \/ Configure
    \/ ConnectReturn
    \/ SubscribeReturn
    \/ \E m \in StreamMessages : Receive(m)
    \/ \E i \in DOMAIN tasks : LookupReturn(i)
    \/ \E i \in DOMAIN tasks : ItemReturn(i)
    \/ \E i \in DOMAIN tasks : WorldReturn(i)
    \/ \E i \in DOMAIN tasks : PostReturn(i)
    \/ StreamEnd
    \/ Exit

Spec == Init /\ [][Next]_vars

\* The matcher on its own: any store of up to MaxStore rows, the process
\* past its startup, and one search for any world and item id.
RowNames == <<"r1", "r2", "r3", "r4">>
RowKeys == Worlds \X (Items \cup {WILDCARD_ITEM}) \X Versions

\* Row k of a store is named RowNames[k], so that a returned alert tells
\* which row it came from.
MatcherStores ==
    { [k \in DOMAIN ks |->
         AlertRow(RowNames[k], ks[k][1], ks[k][2], ks[k][3], NoWebhook,
                  TriggerText(TRUE, 4))] :
      ks \in BoundedSeq(RowKeys, MaxStore) }

MatcherInit ==
    /\ store \in MatcherStores
    /\ main_pc = "running"
    /\ connects = 1
    /\ subscribes = 1
    /\ tasks = <<>>

Search(m) == tasks = <<>> /\ Receive(m)

MatcherNext ==
    \/ \E m \in QueryMessages : Search(m)
    \/ \E i \in DOMAIN tasks : LookupReturn(i)

MatcherSpec == MatcherInit /\ [][MatcherNext]_vars

\* ================================================================= claims
Suspended(t) == t.pc \in {"item", "world", "post"}

\* send_discord_message was called for candidate k of task t
Dispatched(t, k) ==
    \/ \E j \in DOMAIN t.notified : t.notified[j].idx = k
    \/ Suspended(t) /\ t.idx = k

NetCallsOf(t, k) == {j \in DOMAIN t.net : t.net[j].idx = k}
PostsOf(t, k) == {j \in DOMAIN t.net : t.net[j].idx = k /\ t.net[j].kind = "post"}

\* The selection the matcher is specified to make.
InWindow(row) ==
    MIN_TRIGGER_VERSION <= row.trigger_version
        /\ row.trigger_version <= MAX_TRIGGER_VERSION
Wanted(row, ev) ==
    /\ row.world_id = ev.world_id
    /\ row.item_id = ev.item_id \/ row.item_id = -1
    /\ InWindow(row)
WantedRows(ev) == {k \in DOMAIN store : Wanted(store[k], ev)}

ReturnedNames(t) == {t.alerts[j].alert.name : j \in DOMAIN t.alerts}
Returned(t, row) == row.name \in ReturnedNames(t)

\* C1: a lookup that returns for world w and item i returns exactly the stored
\* alerts with world_id = w, item_id = i or -1, and a trigger_version inside
\* [MIN_TRIGGER_VERSION, MAX_TRIGGER_VERSION]: none outside, none omitted.
C1_MatcherExact ==
    \A i \in DOMAIN tasks :
        tasks[i].lookup = "ok" =>
            LET Want(row) == Wanted(row, tasks[i].ev)
            IN  /\ SeqMap(UserAlert, SelectSeq(store, Want))
                     = [j \in DOMAIN tasks[i].alerts |-> tasks[i].alerts[j].alert]
                /\ \A k \in DOMAIN store :
                     Returned(tasks[i], store[k]) <=> k \in WantedRows(tasks[i].ev)

\* C1 witness: a search returned one row and left out a row of the same world
\* and item whose version is outside the window, and a row of another world.
C1_Witness ==
    \E i \in DOMAIN tasks :
        /\ tasks[i].lookup = "ok"
        /\ Len(tasks[i].alerts) = 1
        /\ \E k \in DOMAIN store :
              /\ store[k].world_id = tasks[i].ev.world_id
              /\ store[k].item_id = tasks[i].ev.item_id
              /\ ~InWindow(store[k])

\* C2 as stated: a wildcard alert is returned by a search for world w and any
\* item iff its world_id is w; a concrete-item alert is returned only by the
\* searches for its own item id.
C2_WildcardAsStated ==
    \A i \in DOMAIN tasks :
        tasks[i].lookup = "ok" =>
            \A k \in DOMAIN store :
                /\ store[k].item_id = -1 =>
                     (Returned(tasks[i], store[k])
                        <=> store[k].world_id = tasks[i].ev.world_id)
                /\ store[k].item_id # -1 /\ Returned(tasks[i], store[k])
                     => store[k].item_id = tasks[i].ev.item_id

\* C2 amended: a wildcard alert whose trigger_version is inside the window is
\* returned by a search for world w and any item iff its world_id is w; a
\* wildcard alert outside the window is never returned; a concrete-item alert
\* is returned only by the searches for its own item id.
C2_Wildcard ==
    \A i \in DOMAIN tasks :
        tasks[i].lookup = "ok" =>
            \A k \in DOMAIN store :
                /\ store[k].item_id = -1 /\ InWindow(store[k]) =>
                     (Returned(tasks[i], store[k])
                        <=> store[k].world_id = tasks[i].ev.world_id)
                /\ store[k].item_id = -1 /\ ~InWindow(store[k]) =>
                     ~Returned(tasks[i], store[k])
                /\ store[k].item_id # -1 /\ Returned(tasks[i], store[k])
                     => store[k].item_id = tasks[i].ev.item_id

\* C2 witness: a search for a concrete item returned a wildcard alert of its
\* world and not the alert of the other item.
C2_Witness ==
    \E i \in DOMAIN tasks :
        /\ tasks[i].lookup = "ok"
        /\ tasks[i].ev.item_id # -1
        /\ \E k, l \in DOMAIN store :
              /\ store[k].item_id = -1
              /\ Returned(tasks[i], store[k])
              /\ store[l].item_id \notin {-1, tasks[i].ev.item_id}
              /\ store[l].world_id = tasks[i].ev.world_id
              /\ InWindow(store[l])
              /\ ~Returned(tasks[i], store[l])

\* A stream item that cannot be received or decoded.
Undecodable(m) ==
    \/ m.kind = "error"
    \/ ~m.data.wellformed
    \/ m.data.fields # {"world_id", "item_id", "listings"}

Untouched(t) ==
    /\ ~t.queried
    /\ t.lookup = "none"
    /\ t.evals = <<>>
    /\ t.net = <<>>
    /\ t.notified = <<>>

\* A step that takes one more item from the stream.
Arrival == Len(tasks') = Len(tasks) + 1

\* C3: an item that cannot be received or decoded is skipped: no lookup, no
\* evaluation, no network call; taking it leaves the process running and the
\* other message futures as they were; and a well-formed item taken after a
\* skipped one is decoded and its lookup issued.
C3_SkipStep ==
    Arrival =>
        LET n == Len(tasks')
        IN  /\ Undecodable(tasks'[n].msg) =>
                 /\ tasks'[n].pc = "skipped"
                 /\ Untouched(tasks'[n])
                 /\ main_pc' = main_pc
                 /\ \A i \in DOMAIN tasks : tasks'[i] = tasks[i]
            /\ ~Undecodable(tasks'[n].msg)
                 /\ (\E i \in DOMAIN tasks : Undecodable(tasks[i].msg)) =>
                 /\ tasks'[n].pc = "lookup"
                 /\ tasks'[n].queried
                 /\ tasks'[n].ev.world_id = tasks'[n].msg.data.world_id
                 /\ tasks'[n].ev.item_id = tasks'[n].msg.data.item_id

C3_DecodeErrorSkipped ==
    /\ [](\A i \in DOMAIN tasks :
            Undecodable(tasks[i].msg) =>
                tasks[i].pc = "skipped" /\ Untouched(tasks[i]))
    /\ [][C3_SkipStep]_vars

\* C3 witness: the first item was skipped and the second, well-formed, went
\* through lookup, evaluation and a POST to completion.
C3_Witness ==
    /\ Len(tasks) = 2
    /\ Undecodable(tasks[1].msg)
    /\ tasks[1].pc = "skipped"
    /\ tasks[2].pc = "done"
    /\ PostsOf(tasks[2], 1) # {}
    /\ main_pc = "running"

\* C4: when the trigger text of one selected row does not parse, the other
\* selected rows are still returned and evaluated, and the process goes on.
C4_ParseFailureConfined ==
    \A i \in DOMAIN tasks :
        LET t == tasks[i]
            bad == {k \in WantedRows(t.ev) : ~store[k].trigger.valid}
            Good(row) == Wanted(row, t.ev) /\ row.trigger.valid
        IN  t.lookup \in {"ok", "panic"} /\ bad # {} =>
                /\ t.lookup = "ok"
                /\ [j \in DOMAIN t.alerts |-> t.alerts[j].alert]
                     = SeqMap(UserAlert, SelectSeq(store, Good))
                /\ t.pc # "panicked"
                /\ main_pc # "panicked"

\* C5: when the lookup of a message fails, that message is dropped (nothing
\* evaluated, nothing sent) and the process keeps running.
C5_LookupFailureDropsMessage ==
    \A i \in DOMAIN tasks :
        tasks[i].lookup = "err" =>
            /\ tasks[i].evals = <<>>
            /\ tasks[i].net = <<>>
            /\ tasks[i].notified = <<>>
            /\ main_pc # "panicked"

\* C6: when the dispatch of one candidate fails, the process goes on, and the
\* message is finished only after every candidate has been evaluated.
C6_DispatchFailureIsolated ==
    \A i \in DOMAIN tasks :
        \A j \in DOMAIN tasks[i].notified :
            tasks[i].notified[j].result = "Err" =>
                /\ main_pc # "panicked"
                /\ tasks[i].pc # "panicked"
                /\ tasks[i].pc = "done" => Len(tasks[i].evals) = Len(tasks[i].alerts)

\* C7: the dispatcher is called for a candidate iff its rule returned a
\* number; a candidate without a result causes no dispatch and the process
\* goes on with the other candidates and events.
C7_DispatchIffResult ==
    \A i \in DOMAIN tasks :
        \A k \in DOMAIN tasks[i].evals :
            /\ Dispatched(tasks[i], k) <=> tasks[i].evals[k].some
            /\ ~tasks[i].evals[k].some =>
                 tasks[i].pc # "panicked" /\ main_pc # "panicked"

\* C8: for an alert without an endpoint the dispatcher makes no network call
\* (no item lookup, no world lookup, no POST) and returns Ok.
C8_NoEndpointNoCall ==
    \A i \in DOMAIN tasks :
        \A k \in DOMAIN tasks[i].alerts :
            tasks[i].alerts[k].alert.discord_webhook = "None" =>
                /\ NetCallsOf(tasks[i], k) = {}
                /\ ~(Suspended(tasks[i]) /\ tasks[i].idx = k)
                /\ \A j \in DOMAIN tasks[i].notified :
                     tasks[i].notified[j].idx = k =>
                        tasks[i].notified[j].result = "Ok"

\* C8 witness: the rule of an alert without an endpoint matched, the
\* dispatcher was called for it and has returned.
C8_Witness ==
    \E i \in DOMAIN tasks :
        \E k \in DOMAIN tasks[i].evals :
            /\ tasks[i].alerts[k].alert.discord_webhook = "None"
            /\ tasks[i].evals[k].some
            /\ \E j \in DOMAIN tasks[i].notified : tasks[i].notified[j].idx = k

\* C9: at most one POST is sent for one (event, candidate) pair; a failed
\* send is not repeated.
C9_AtMostOnePost ==
    \A i \in DOMAIN tasks :
        \A k \in DOMAIN tasks[i].alerts :
            Cardinality(PostsOf(tasks[i], k)) <= 1

\* C9 witness: a POST failed and the dispatcher has returned.
C9_Witness ==
    \E i \in DOMAIN tasks :
        \E j \in DOMAIN tasks[i].notified :
            /\ tasks[i].notified[j].response = "unreachable"
            /\ Cardinality(PostsOf(tasks[i], tasks[i].notified[j].idx)) = 1

\* C10: the dispatcher returns Err when the endpoint is unreachable and when
\* it answers with a non-2xx status, and Ok only for a 2xx answer or an alert
\* without an endpoint.
C10_FailureReported ==
    \A i \in DOMAIN tasks :
        \A j \in DOMAIN tasks[i].notified :
            LET n == tasks[i].notified[j]
            IN  /\ n.response \in {"unreachable", "non2xx"} => n.result = "Err"
                /\ n.result = "Ok" => n.response \in {"2xx", "none"}

InFlight(t) == t.pc \in {"lookup", "item", "world", "post"}

\* C11: while the stream is open, the next item is taken and its processing
\* started whatever the number of message futures suspended at the lookup or
\* in the dispatch; a well-formed item taken then has its lookup issued.
\* (Len(tasks) < MaxMsgs is the bound of the run, not a limit of the code.)
C11_StartStep ==
    Arrival /\ ~Undecodable(tasks'[Len(tasks')].msg) =>
        /\ tasks'[Len(tasks')].pc = "lookup"
        /\ tasks'[Len(tasks')].queried
        /\ \A i \in DOMAIN tasks : tasks'[i] = tasks[i]

C11_ConsumptionNeverBlocked ==
    /\ [](main_pc = "running" /\ Len(tasks) < MaxMsgs =>
            \A m \in StreamMessages : ENABLED Receive(m))
    /\ [][C11_StartStep]_vars

\* C11 witness: every message taken so far is suspended, one at the lookup
\* and one at the POST, at the same time.
C11_Witness ==
    /\ Len(tasks) >= 2
    /\ \A i \in DOMAIN tasks : InFlight(tasks[i])
    /\ tasks[1].pc = "post"
    /\ tasks[2].pc = "lookup"

Finished(t) == t.pc \in {"skipped", "done"}
Ended == main_pc \in {"exit_ok", "exit_err", "panicked"}

\* C12: a message whose processing has started runs to its own completion or
\* its own failure: when the process has ended, no message future is left
\* suspended, cut short by the failure of another or by the end of the stream.
C12_NoCancellation ==
    Ended => \A i \in DOMAIN tasks : ~InFlight(tasks[i])

\* C13: the process ends with an error only on a startup failure, and then
\* before any stream item was taken, any lookup issued or any call made.
C13_OnlyStartupFailuresAreFatal ==
    main_pc \in {"exit_err", "panicked"} =>
        /\ main_pc = "exit_err"
        /\ tasks = <<>>

\* C14: exactly one subscribe document is sent, before the first stream item
\* is taken, and no item is taken unless that send succeeded.
C14_SubscribeOnceFirst ==
    /\ subscribes <= 1
    /\ main_pc \in {"running", "draining", "exit_ok", "panicked"} => subscribes = 1
    /\ tasks # <<>> =>
          subscribes = 1 /\ main_pc \in {"running", "draining", "exit_ok", "panicked"}
    /\ main_pc \in {"init", "connecting", "subscribing", "exit_err"} => tasks = <<>>

\* C14 witness: the subscribe document went out and a stream item was taken
\* and decoded after it.
C14_Witness ==
    /\ subscribes = 1
    /\ Len(tasks) = 1
    /\ tasks[1].queried

\* C15: there is one connection attempt at most; once the stream has ended no
\* further item is taken and nothing connects again; the process exits with
\* code 0 only when every message in flight has finished and none has failed,
\* and it can exit as soon as that is so.
C15_AfterStreamEnd ==
    main_pc \in {"draining", "exit_ok"} =>
        /\ connects' = connects
        /\ subscribes' = subscribes
        /\ Len(tasks') = Len(tasks)
        /\ main_pc' \in {"draining", "exit_ok", "panicked"}
        /\ main_pc = "exit_ok" => main_pc' = "exit_ok"

C15_NoReconnect ==
    /\ [](connects <= 1)
    /\ [](main_pc = "exit_ok" =>
            \A i \in DOMAIN tasks : Finished(tasks[i]) /\ tasks[i].panic = "none")
    /\ [](main_pc = "draining" /\ (\A i \in DOMAIN tasks : Finished(tasks[i]))
            => ENABLED Exit)
    /\ [][C15_AfterStreamEnd]_vars

\* C15 witness: the stream ended with a message suspended in its dispatch; it
\* finished, with a POST, and the process then exited with code 0.
C15_Witness ==
    /\ main_pc = "exit_ok"
    /\ Len(tasks) = 1
    /\ tasks[1].pc = "done"
    /\ PostsOf(tasks[1], 1) # {}

\* C16: every decoded event has a concrete item id (never -1) and a concrete
\* world id, an event without listings decodes, and the matcher is never
\* queried with item_id = -1.
C16_ConcreteItemId ==
    \A i \in DOMAIN tasks :
        /\ tasks[i].queried =>
             tasks[i].ev.item_id # -1 /\ tasks[i].ev.world_id \in Worlds
        /\ ~Undecodable(tasks[i].msg) /\ tasks[i].msg.data.listings = <<>> =>
             tasks[i].queried

\* The row of the store a candidate of task t was built from.
FromWantedRow(t, c) ==
    \E k \in WantedRows(t.msg.data) :
        /\ UserAlert(store[k]) = c.alert
        /\ ParseTrigger(store[k].trigger).ok
        /\ ParseTrigger(store[k].trigger).rule = c.trigger

\* C17: under every interleaving, each POST of a message future goes to the
\* endpoint of a candidate the matcher returned for the world and item of
\* that future's own event, whose rule gave a number on that event's
\* listings, and carries that event's item id and world id; the name lookups
\* before it carry them too.
C17_PostsAreSound ==
    \A i \in DOMAIN tasks :
        \A j \in DOMAIN tasks[i].net :
            LET t == tasks[i]
                call == t.net[j]
            IN  /\ ~Undecodable(t.msg)
                /\ t.lookup = "ok"
                /\ call.idx \in DOMAIN t.alerts
                /\ call.idx \in DOMAIN t.evals
                /\ FromWantedRow(t, t.alerts[call.idx])
                /\ Evaluate(t.alerts[call.idx].trigger, t.msg.data.listings).some
                /\ t.evals[call.idx].some
                /\ call.item_id = t.msg.data.item_id
                /\ call.world_id = t.msg.data.world_id
                /\ call.kind = "post" =>
                     /\ call.url = t.alerts[call.idx].alert.discord_webhook
                     /\ call.url # "None"

\* C17 witness: two messages for different items are in flight together and
\* both have sent a POST for the wildcard alert, each with its own item id.
C17_Witness ==
    /\ Len(tasks) = 2
    /\ tasks[1].ev.item_id # tasks[2].ev.item_id
    /\ \A i \in {1, 2} :
          /\ tasks[i].pc = "post"
          /\ tasks[i].ev.item_id # -1
          /\ tasks[i].net[Len(tasks[i].net)].kind = "post"
          /\ tasks[i].net[Len(tasks[i].net)].url = "hookC"
          /\ tasks[i].net[Len(tasks[i].net)].item_id = tasks[i].ev.item_id

Returnings(t, k) == {j \in DOMAIN t.notified : t.notified[j].idx = k}

\* C18: within one event the candidates are handled one at a time in the
\* order the matcher returned them: candidate k+1 is evaluated only after the
\* dispatch of candidate k has returned Ok, so the candidates evaluated so far
\* are 1..n with at most candidate n in its dispatch, and the calls and the
\* returns of the dispatcher are in candidate order.
C18_OneCandidateAtATime ==
    \A i \in DOMAIN tasks :
        LET t == tasks[i]
            n == Len(t.evals)
        IN  /\ n <= Len(t.alerts)
            /\ \A k \in 1..n :
                 t.evals[k] = Evaluate(t.alerts[k].trigger, t.ev.listings)
            /\ \A k \in 1..(n - 1) :
                 \E j \in Returnings(t, k) : t.notified[j].result = "Ok"
            /\ Suspended(t) => t.idx = n /\ Returnings(t, n) = {}
            /\ \A j \in DOMAIN t.net : t.net[j].idx <= n
            /\ \A j, l \in DOMAIN t.net : j < l => t.net[j].idx <= t.net[l].idx
            /\ \A j, l \in DOMAIN t.notified :
                 j < l => t.notified[j].idx < t.notified[l].idx

\* C18 witness: the third candidate is in its dispatch after the first was
\* posted and the second, without an endpoint, returned.
C18_Witness ==
    \E i \in DOMAIN tasks :
        /\ tasks[i].pc = "post"
        /\ tasks[i].idx = 3
        /\ PostsOf(tasks[i], 1) # {}
        /\ Len(tasks[i].notified) = 2

Kinds(t, k) ==
    LET Of(call) == call.idx = k
        Kind(call) == call.kind
    IN  SeqMap(Kind, SelectSeq(t.net, Of))

\* C19: for an alert with an endpoint the dispatcher calls the item lookup,
\* then the world lookup, then the POST; when the item lookup fails it
\* returns Err with neither world lookup nor POST made, when the world lookup
\* fails it returns Err with no POST made.
C19_NamesBeforePost ==
    \A i \in DOMAIN tasks :
        \A k \in DOMAIN tasks[i].alerts :
            LET t == tasks[i]
                kinds == Kinds(t, k)
            IN  /\ kinds \in {<<>>, <<"item">>, <<"item", "world">>,
                              <<"item", "world", "post">>}
                /\ \A j \in Returnings(t, k) :
                     /\ t.notified[j].response = "item_failed" =>
                          kinds = <<"item">> /\ t.notified[j].result = "Err"
                     /\ t.notified[j].response = "world_failed" =>
                          kinds = <<"item", "world">> /\ t.notified[j].result = "Err"
                     /\ t.notified[j].response \in PostOutcomes =>
                          kinds = <<"item", "world", "post">>

\* C19 witness: the world lookup of a dispatch failed after its item lookup
\* succeeded, and the dispatcher has returned.
C19_Witness ==
    \E i \in DOMAIN tasks :
        \E j \in DOMAIN tasks[i].notified :
            /\ tasks[i].notified[j].response = "world_failed"
            /\ Kinds(tasks[i], tasks[i].notified[j].idx) = <<"item", "world">>

====
